---- MODULE Spec2Model ----
(***************************************************************************)
(* A model of src/app.js, the client-side gallery of the Portfolio page.   *)
(* The file holds two scripts: the discovery script (lines 1-251), which   *)
(* finds the images of a category by trying to load them, and the manifest *)
(* script (lines 253-497), which reads gallery.json.  Both share the tile  *)
(* renderer, the global error listener and the modal.                      *)
(*                                                                         *)
(* Strings are TLA+ strings; a URL is built by concatenation exactly as    *)
(* the template literals of the source build it.                           *)
(***************************************************************************)
EXTENDS Integers, Sequences, FiniteSets, TLC

VARIABLES
    variant,      \* which of the two scripts the page runs
    files,        \* the URLs that load as an image (the server's content)
    dom,          \* ids of the elements the page contains
    html,         \* rootId -> what the container shows
    pc,           \* where init() is: "start", "probing", "fetching", "done"
    secI,         \* discovery: position in SECTIONS of the category scanned
    idx,          \* discovery: buildSection's loop index
    extI,         \* discovery: findExistingImageUrl's position in EXTENSIONS
    missesInRow,  \* discovery: buildSection's miss streak
    found,        \* discovery: buildSection's list of items
    probe,        \* discovery: the URL of the Image being loaded, "" if none
    inflight,     \* discovery: the URLs of the Images neither loaded nor failed
    scanned,      \* log: rootId -> the indices handed to findExistingImageUrl
    attempts,     \* log: rootId -> number of tryLoad calls
    tried,        \* log: the URLs tried by the current findExistingImageUrl call
    lastCall,     \* log: the latest finished findExistingImageUrl call
    response,     \* manifest: what the fetch of gallery.json answered
    logged,       \* number of console.error calls
    escaped,      \* number of exceptions no handler caught
    modal,        \* the modal: its class, attributes, texts and image
    timers,       \* number of closeModal's timeouts still to fire
    opened,       \* log: the arguments of the latest openModal call
    event,        \* log: the listener or callback of the modal that ran last
    closedBy,     \* log: what called closeModal in the latest step, "" if nothing
    imgs          \* element -> an element of the page a load may fail on

scanVars == <<pc, secI, idx, extI, missesInRow, found, probe, inflight>>
logVars == <<scanned, attempts, tried, lastCall>>
manifestVars == <<response, logged, escaped>>
modalVars == <<modal, timers, opened, event, closedBy>>
vars == <<variant, files, dom, html, scanVars, logVars, manifestVars, modalVars, imgs>>

----------------------------------------------------------------------------
(* Constants of the discovery script *)

MAX_ITEMS == 50
ASSETS_DIR == "assets/"
\* (mutant: png is tried first)
ExtensionsPngFirst == <<"png", "webp", "jpg", "jpeg">>
EXTENSIONS == <<"webp", "jpg", "jpeg", "png">>
STOP_AFTER_MISSES == 12

\* (mutant: the sections are in another order)
SectionsPersonalFirst ==
    << [rootId |-> "gridPersonal", prefix |-> "per-", titlePrefix |-> "Personal",
        defaultType |-> "Artwork"],
       [rootId |-> "gridNft", prefix |-> "nft-", titlePrefix |-> "NFT",
        defaultType |-> "Artwork"],
       [rootId |-> "gridMobile", prefix |-> "mob-", titlePrefix |-> "Mobile",
        defaultType |-> "Artwork"] >>

SECTIONS ==
    << [rootId |-> "gridNft", prefix |-> "nft-", titlePrefix |-> "NFT",
        defaultType |-> "Artwork"],
       [rootId |-> "gridMobile", prefix |-> "mob-", titlePrefix |-> "Mobile",
        defaultType |-> "Artwork"],
       [rootId |-> "gridPersonal", prefix |-> "per-", titlePrefix |-> "Personal",
        defaultType |-> "Artwork"] >>

RootIds == {SECTIONS[i].rootId : i \in DOMAIN SECTIONS}

\* "" stands for null where a URL or nothing is returned
NoUrl == ""
NoCall == [baseName |-> "", tried |-> <<>>, result |-> NoUrl]

----------------------------------------------------------------------------
(* Bounds of the model: the modal *)

\* closeModal is not called while MaxTimers of its timeouts are pending
MaxTimers == 2
\* uncaught exceptions are counted up to MaxEscaped
MaxEscaped == 2
\* the error listener's assignments of an element's src are counted up to
\* MaxSwaps
MaxSwaps == 3

----------------------------------------------------------------------------
(* Bounds of the model: which files the server may hold *)

\* indices 1..MaxDense exist in any combination
MaxDense == 4

\* or the multiples of STOP_AFTER_MISSES exist, alone or with 1..MaxDense,
\* which lets a scan run on to MAX_ITEMS
SparseHits == {k * STOP_AFTER_MISSES : k \in 1..(MAX_ITEMS \div STOP_AFTER_MISSES)}

HitSets ==
    SUBSET (1..MaxDense) \cup {SparseHits, (1..MaxDense) \cup SparseHits}

ExtSets == SUBSET {EXTENSIONS[e] : e \in DOMAIN EXTENSIONS}

----------------------------------------------------------------------------
(* String helpers shared by the two scripts.  TLA+ strings have no          *)
(* characters to walk over, so a conversion is given by what it does to the *)
(* strings the model builds: the generated titles "<titlePrefix> #<n>", the *)
(* asset URLs, and the strings below that hold a character it rewrites.     *)

\* a title holding a character escapeHtml rewrites
AmpTitle == "R&D"
\* a filename holding a character encodeURI rewrites
SpaceName == "my art.webp"
\* a filename holding a lone surrogate (JSON "\ud800.webp"): encodeURI
\* throws URIError on it
LoneSurrogateName == "<U+D800>.webp"
\* an attribute value that is no URI encoding: decodeURI throws URIError
BadEncoding == "%"

\* an attribute the markup does not set
NoAttr == "(none)"

GeneratedTitles ==
    {<<SECTIONS[i].titlePrefix, n>> : i \in DOMAIN SECTIONS, n \in 1..MAX_ITEMS}

escapeHtml(s) ==
    IF s = AmpTitle THEN "R&amp;D" ELSE s

\* encodeURIComponent leaves letters, digits and - _ . ! ~ * ' ( ) alone and
\* percent-encodes the rest, here the space, # & and ;
encodeURIComponent(s) ==
    IF \E g \in GeneratedTitles : s = g[1] \o " #" \o ToString(g[2])
    THEN LET g == CHOOSE g \in GeneratedTitles : s = g[1] \o " #" \o ToString(g[2])
         IN g[1] \o "%20%23" \o ToString(g[2])
    ELSE IF s = "R&amp;D" THEN "R%26amp%3BD"
    ELSE s

\* the SVG markup around the title, percent-encoded (encodeURIComponent works
\* character by character, so it distributes over the template)
SvgHead == "%3Csvg%20xmlns%3D%22http%3A%2F%2Fwww.w3.org%2F2000%2Fsvg%22%3EImage%20not%20found%20"
SvgTail == "%3C%2Fsvg%3E"
DataUriScheme == "data:image/svg+xml;charset=utf-8,"

makePlaceholderSvg(title) ==
    DataUriScheme \o SvgHead \o encodeURIComponent(escapeHtml(title)) \o SvgTail

\* s is a data URI of an SVG image (TLA+ has no prefix test on strings: the
\* data URIs of the model are the placeholders of its titles)
IsSvgDataUri(s, titles) ==
    \E t \in titles : s = DataUriScheme \o SvgHead \o encodeURIComponent(escapeHtml(t)) \o SvgTail

\* encodeURI keeps / . - : and percent-encodes the space; it throws on a
\* lone surrogate
encodeURIThrows(s) ==
    \E d \in {"", "./assets/full/", "./assets/thumb/"} : s = d \o LoneSurrogateName

encodeURI(s) ==
    IF \E d \in {"", "./assets/full/", "./assets/thumb/"} : s = d \o SpaceName
    THEN LET d == CHOOSE d \in {"", "./assets/full/", "./assets/thumb/"} : s = d \o SpaceName
         IN d \o "my%20art.webp"
    ELSE s

decodeURIThrows(s) == s = BadEncoding

decodeURI(s) ==
    IF \E d \in {"", "./assets/full/", "./assets/thumb/"} : s = d \o "my%20art.webp"
    THEN LET d == CHOOSE d \in {"", "./assets/full/", "./assets/thumb/"} : s = d \o "my%20art.webp"
         IN d \o SpaceName
    ELSE s

----------------------------------------------------------------------------
(* Helpers of the discovery script *)

BaseName(section, i) == section.prefix \o ToString(i)

CandidateUrl(baseName, e) == ASSETS_DIR \o baseName \o "." \o EXTENSIONS[e]

\* tryLoad(url): the Image loads (onload, true) or does not (onerror, false)
tryLoad(url) == url \in files

\* tryLoad(url) makes an Image and sets its src: one more load is under way
Requested(p, url) == p \cup {url}

\* (mutant: the promise resolves while the load is still under way)
ResolvedUnsettled(p, url) == p

\* the Image's onload or onerror resolves the promise: that load is over
Resolved(p, url) == p \ {url}

\* (mutant: the tiles are given the eager / high hints)
itemHtmlDiscoveryEager(item) ==
    [dataTitle |-> escapeHtml(item.title),
     dataType |-> escapeHtml(item.type),
     dataUrl |-> encodeURI(item.imgUrl),
     src |-> item.imgUrl,
     alt |-> escapeHtml(item.title),
     loading |-> "eager",
     fetchpriority |-> "high",
     fallback |-> makePlaceholderSvg(item.title)]

\* itemHtml of the discovery script: the tile of one item.  It sets no
\* fetchpriority attribute, and loading is always "lazy".
itemHtmlDiscovery(item) ==
    [dataTitle |-> escapeHtml(item.title),
     dataType |-> escapeHtml(item.type),
     dataUrl |-> encodeURI(item.imgUrl),
     src |-> item.imgUrl,
     alt |-> escapeHtml(item.title),
     loading |-> "lazy",
     fetchpriority |-> NoAttr,
     fallback |-> makePlaceholderSvg(item.title)]

MapItemHtml(items) == [k \in DOMAIN items |-> itemHtmlDiscovery(items[k])]

\* what a container shows: the markup the page came with, the tiles of an
\* innerHTML assignment (none for ""), or a text
Static == [kind |-> "static", text |-> "", tiles |-> <<>>]
Tiles(ts) == [kind |-> "tiles", text |-> "", tiles |-> ts]

\* (mutant: init() starts over with the first category of the page)
NextPresentFirst(i) ==
    IF \E j \in 1..Len(SECTIONS) : SECTIONS[j].rootId \in dom
    THEN CHOOSE j \in 1..Len(SECTIONS) :
           /\ SECTIONS[j].rootId \in dom
           /\ \A k \in 1..(j - 1) : SECTIONS[k].rootId \notin dom
    ELSE Len(SECTIONS) + 1

\* (mutant: buildSection does not test its container)
NextPresentUntested(i) == i

\* the first section at or after position i whose container is in the page,
\* or Len(SECTIONS) + 1: buildSection returns at once for the others
NextPresent(i) ==
    IF \E j \in i..Len(SECTIONS) : SECTIONS[j].rootId \in dom
    THEN CHOOSE j \in i..Len(SECTIONS) :
           /\ SECTIONS[j].rootId \in dom
           /\ \A k \in i..(j - 1) : SECTIONS[k].rootId \notin dom
    ELSE Len(SECTIONS) + 1

----------------------------------------------------------------------------
(* The discovery script *)

\* init() calls buildSection for the sections from position i on, up to the
\* first await: the containers absent are skipped, the first present one is
\* emptied and the first candidate of its index 1 is requested.  h is the
\* html so far, p the loads under way.
EnterSection(i, h, p) ==
    LET j == NextPresent(i) IN
    IF j > Len(SECTIONS)
    THEN /\ pc' = "done"
         /\ html' = h
         /\ probe' = NoUrl
         /\ inflight' = p
         /\ UNCHANGED <<secI, idx, extI, missesInRow, found, scanned, attempts, tried>>
    ELSE LET root == SECTIONS[j].rootId
             url == CandidateUrl(BaseName(SECTIONS[j], 1), 1) IN
         /\ pc' = "probing"
         /\ html' = [h EXCEPT ![root] = Tiles(<<>>)]
         /\ secI' = j
         /\ idx' = 1
         /\ extI' = 1
         /\ missesInRow' = 0
         /\ found' = <<>>
         /\ probe' = url
         /\ inflight' = Requested(p, url)
         /\ scanned' = [scanned EXCEPT ![root] = <<1>>]
         /\ attempts' = [attempts EXCEPT ![root] = 1]
         /\ tried' = <<url>>

\* (mutant: the break comes one miss late)
StopEarlyOneLate(m) == m > STOP_AFTER_MISSES

\* buildSection's test of the streak after a miss: break
StopEarly(m) == m >= STOP_AFTER_MISSES

\* (mutant: the loop has no upper bound)
LoopEndsNoBound(i, stop) == stop

\* buildSection's loop is left by the break or by its condition idx <= MAX_ITEMS
LoopEnds(i, stop) == stop \/ i > MAX_ITEMS

\* (mutant: the title counts the items found instead)
FoundItemDense(section, i, url, f) ==
    [title |-> section.titlePrefix \o " #" \o ToString(Len(f) + 1),
     type |-> section.defaultType,
     imgUrl |-> url]

\* the item buildSection pushes for the file url found at index i, f being
\* the items found before
FoundItem(section, i, url, f) ==
    [title |-> section.titlePrefix \o " #" \o ToString(i),
     type |-> section.defaultType,
     imgUrl |-> url]

\* buildSection's loop goes on to index i with the list f and the streak m,
\* or leaves the loop, renders f and returns to init(); p is the loads
\* under way
ContinueScan(i, f, m, stop, p) ==
    LET section == SECTIONS[secI]
        root == section.rootId IN
    IF LoopEnds(i, stop)
    THEN EnterSection(secI + 1, [html EXCEPT ![root] = Tiles(MapItemHtml(f))], p)
    ELSE LET url == CandidateUrl(BaseName(section, i), 1) IN
         /\ pc' = "probing"
         /\ idx' = i
         /\ extI' = 1
         /\ missesInRow' = m
         /\ found' = f
         /\ probe' = url
         /\ inflight' = Requested(p, url)
         /\ scanned' = [scanned EXCEPT ![root] = Append(@, i)]
         /\ attempts' = [attempts EXCEPT ![root] = @ + 1]
         /\ tried' = <<url>>
         /\ UNCHANGED <<secI, html>>

\* the script is loaded: init() starts
StartDiscovery ==
    /\ variant = "discovery"
    /\ pc = "start"
    /\ EnterSection(1, html, inflight)
    /\ UNCHANGED <<variant, files, dom, imgs, lastCall, manifestVars, modalVars>>

\* the Image of the pending tryLoad fires onload or onerror; the awaiting
\* findExistingImageUrl, buildSection and init() run on to the next await
ProbeSettles ==
    /\ variant = "discovery"
    /\ pc = "probing"
    /\ LET section == SECTIONS[secI]
           root == section.rootId
           baseName == BaseName(section, idx)
           ok == tryLoad(probe)
           p == Resolved(inflight, probe) IN
       IF ok
       THEN \* findExistingImageUrl returns url
            /\ lastCall' = [baseName |-> baseName, tried |-> tried, result |-> probe]
            /\ ContinueScan(idx + 1,
                            Append(found, FoundItem(section, idx, probe, found)),
                            0, FALSE, p)
       ELSE IF extI < Len(EXTENSIONS)
       THEN \* the next extension of the same base name
            LET url == CandidateUrl(baseName, extI + 1) IN
            /\ extI' = extI + 1
            /\ probe' = url
            /\ inflight' = Requested(p, url)
            /\ attempts' = [attempts EXCEPT ![root] = @ + 1]
            /\ tried' = Append(tried, url)
            /\ UNCHANGED <<pc, secI, idx, missesInRow, found, html, scanned, lastCall>>
       ELSE \* findExistingImageUrl returns null
            /\ lastCall' = [baseName |-> baseName, tried |-> tried, result |-> NoUrl]
            /\ ContinueScan(idx + 1, found, missesInRow + 1,
                            StopEarly(missesInRow + 1), p)
    /\ UNCHANGED <<variant, files, dom, imgs, manifestVars, modalVars>>

----------------------------------------------------------------------------
(* The manifest script *)

THUMB_DIR == "./assets/thumb/"
FULL_DIR == "./assets/full/"
PRIORITY_FIRST_SECTION_COUNT == 6

\* the key of each section in gallery.json, in the order of SECTIONS
SectionKeys == <<"nft", "mobile", "personal">>

FallbackNotice ==
    "Failed to load gallery.json. Check file path and GitHub Pages base URL."
Notice == [kind |-> "notice", text |-> FallbackNotice, tiles |-> <<>>]

\* A JSON value under a category key: absent (undefined), null, a string, an
\* object, or an array of filenames
Undefined == [kind |-> "undefined", list |-> <<>>]
JsonValues(lists) ==
    {[kind |-> k, list |-> <<>>] : k \in {"undefined", "null", "string", "object"}}
        \cup {[kind |-> "array", list |-> l] : l \in lists}

\* the answer of the fetch: an HTTP status, and a body that is no JSON, the
\* JSON null, a JSON number, or a JSON object
NoResponse == [status |-> 0, body |-> "none", data |-> <<Undefined, Undefined, Undefined>>]

\* res.ok
Ok(res) == res.status \in 200..299

\* loadGalleryJson: throws on a status that is not ok, and res.json() rejects
\* on a body that is no JSON
loadGalleryJsonThrows(res) == ~Ok(res) \/ res.body = "invalid"

\* data.<key>: a TypeError on null, undefined on a number
PropertyThrows(res) == res.body = "null"
Property(res, k) == IF res.body = "object" THEN res.data[k] ELSE Undefined

normalizeArray(x) ==
    IF x.kind \in {"undefined", "null"} THEN <<>>
    ELSE IF x.kind = "array" THEN x.list
    ELSE <<>>

\* itemHtml of the manifest script
itemHtmlManifest(item) ==
    [dataTitle |-> escapeHtml(item.title),
     dataType |-> escapeHtml(item.type),
     dataUrl |-> encodeURI(item.fullUrl),
     src |-> item.thumbUrl,
     alt |-> escapeHtml(item.title),
     loading |-> IF item.priority THEN "eager" ELSE "lazy",
     fetchpriority |-> IF item.priority THEN "high" ELSE "auto",
     fallback |-> makePlaceholderSvg(item.title)]

\* (mutant: the ordinal starts at 0)
ListItemZeroBased(section, filename, n, isFirstSection) ==
    [title |-> section.titlePrefix \o " #" \o ToString(n - 1),
     type |-> section.defaultType,
     thumbUrl |-> THUMB_DIR \o filename,
     fullUrl |-> FULL_DIR \o filename,
     priority |-> isFirstSection /\ (n - 1) < PRIORITY_FIRST_SECTION_COUNT]

\* (mutant: one more tile gets the priority)
ListItemOneMore(section, filename, n, isFirstSection) ==
    [title |-> section.titlePrefix \o " #" \o ToString(n),
     type |-> section.defaultType,
     thumbUrl |-> THUMB_DIR \o filename,
     fullUrl |-> FULL_DIR \o filename,
     priority |-> isFirstSection /\ (n - 1) <= PRIORITY_FIRST_SECTION_COUNT]

\* the item buildSectionFromList makes of the file at position n (i = n - 1)
ListItem(section, filename, n, isFirstSection) ==
    [title |-> section.titlePrefix \o " #" \o ToString(n),
     type |-> section.defaultType,
     thumbUrl |-> THUMB_DIR \o filename,
     fullUrl |-> FULL_DIR \o filename,
     priority |-> isFirstSection /\ (n - 1) < PRIORITY_FIRST_SECTION_COUNT]

\* buildSectionFromList on the html h: [threw, html].  It does nothing when
\* the container is absent; itemHtml throws where encodeURI does.
buildSectionFromList(section, list, isFirstSection, h) ==
    IF section.rootId \notin dom THEN [threw |-> FALSE, html |-> h]
    ELSE IF \E n \in DOMAIN list : encodeURIThrows(FULL_DIR \o list[n])
    THEN [threw |-> TRUE, html |-> h]
    ELSE [threw |-> FALSE,
          html |-> [h EXCEPT ![section.rootId] =
                      Tiles([n \in DOMAIN list |->
                               itemHtmlManifest(ListItem(section, list[n], n,
                                                         isFirstSection))])]]

\* the try block of init(): [threw, html]
TryBlock(res, h) ==
    IF loadGalleryJsonThrows(res) \/ PropertyThrows(res)
    THEN [threw |-> TRUE, html |-> h]
    ELSE LET nft == normalizeArray(Property(res, 1))
             mobile == normalizeArray(Property(res, 2))
             personal == normalizeArray(Property(res, 3))
             b1 == buildSectionFromList(SECTIONS[1], nft, TRUE, h)
             b2 == buildSectionFromList(SECTIONS[2], mobile, FALSE, b1.html)
             b3 == buildSectionFromList(SECTIONS[3], personal, FALSE, b2.html)
         IN IF b1.threw THEN b1 ELSE IF b2.threw THEN b2 ELSE b3

\* the catch block of init(): the notice in every container of the page
CatchBlock(h) ==
    [r \in RootIds |-> IF r \in dom THEN Notice ELSE h[r]]

\* (mutant: init() has no try/catch)
InitManifestNoCatch(res, h) ==
    LET t == TryBlock(res, h) IN
    [html |-> t.html, logged |-> 0, escaped |-> IF t.threw THEN 1 ELSE 0]

\* init() after the fetch has settled: [html, logged, escaped]
InitManifest(res, h) ==
    LET t == TryBlock(res, h) IN
    IF t.threw
    THEN [html |-> CatchBlock(t.html), logged |-> 1, escaped |-> 0]
    ELSE [html |-> t.html, logged |-> 0, escaped |-> 0]

\* the script is loaded: init() calls fetch and awaits it
StartManifest ==
    /\ variant = "manifest"
    /\ pc = "start"
    /\ pc' = "fetching"
    /\ UNCHANGED <<variant, files, dom, imgs, html, secI, idx, extI, missesInRow,
                   found, probe, inflight, logVars, manifestVars, modalVars>>

\* the fetch settles with the answer res; init() runs to its end
FetchSettles(res) ==
    /\ variant = "manifest"
    /\ pc = "fetching"
    /\ LET r == InitManifest(res, html) IN
       /\ html' = r.html
       /\ logged' = logged + r.logged
       /\ escaped' = escaped + r.escaped
    /\ response' = res
    /\ pc' = "done"
    /\ UNCHANGED <<variant, files, dom, imgs, secI, idx, extI, missesInRow,
                   found, probe, inflight, logVars, modalVars>>

----------------------------------------------------------------------------
(* The modal, in both scripts *)

ModalIds ==
    {"modal", "modalBackdrop", "modalClose", "modalTitle", "modalMeta", "modalImg"}

\* modalImg.onerror: null, or the handler openModal made, which holds the
\* title it was called with
NoHandler == [armed |-> FALSE, title |-> ""]
Handler(title) == [armed |-> TRUE, title |-> title]

\* the modal as the page's markup has it: closed, no image.  loading says
\* that the image element has a source it has not finished with, so that a
\* load or error event is still to come.
ModalInitial ==
    [isOpen |-> FALSE, ariaHidden |-> "true", overflow |-> "",
     titleText |-> "", metaText |-> "", src |-> "", alt |-> "",
     onerror |-> NoHandler, loading |-> FALSE]

NotOpened == [called |-> FALSE, title |-> "", type |-> "", url |-> ""]

\* a || b on strings
OrElse(a, b) == IF a = "" THEN b ELSE a

\* openModal({title, type, img}) of the discovery script on the modal m:
\* [threw, modal].  A missing element other than #modal is a null whose
\* property is set: a TypeError, after the assignments before it.
openModalDiscovery(title, type, url, m) ==
    IF "modal" \notin dom THEN [threw |-> FALSE, modal |-> m]
    ELSE IF "modalTitle" \notin dom THEN [threw |-> TRUE, modal |-> m]
    ELSE LET m1 == [m EXCEPT !.titleText = OrElse(title, "Artwork")] IN
    IF "modalMeta" \notin dom THEN [threw |-> TRUE, modal |-> m1]
    ELSE LET m2 == [m1 EXCEPT !.metaText = OrElse(type, "")] IN
    IF "modalImg" \notin dom THEN [threw |-> TRUE, modal |-> m2]
    ELSE [threw |-> FALSE,
          modal |-> [m2 EXCEPT !.src = OrElse(url, ""),
                               !.loading = TRUE,
                               !.alt = OrElse(title, "Artwork"),
                               !.onerror = Handler(title),
                               !.isOpen = TRUE,
                               !.ariaHidden = "false",
                               !.overflow = "hidden"]]

\* openModal({title, type, fullUrl}) of the manifest script: the modal is
\* shown first, then the image is reset and given its handler and source
openModalManifest(title, type, url, m) ==
    IF "modal" \notin dom THEN [threw |-> FALSE, modal |-> m]
    ELSE IF "modalTitle" \notin dom THEN [threw |-> TRUE, modal |-> m]
    ELSE LET m1 == [m EXCEPT !.titleText = OrElse(title, "Artwork")] IN
    IF "modalMeta" \notin dom THEN [threw |-> TRUE, modal |-> m1]
    ELSE LET m2 == [m1 EXCEPT !.metaText = OrElse(type, ""),
                              !.isOpen = TRUE,
                              !.ariaHidden = "false",
                              !.overflow = "hidden"] IN
    IF "modalImg" \notin dom THEN [threw |-> TRUE, modal |-> m2]
    ELSE [threw |-> FALSE,
          modal |-> [m2 EXCEPT !.alt = OrElse(title, "Artwork"),
                               !.onerror = Handler(title),
                               !.src = url,
                               !.loading = TRUE]]

openModal(title, type, url, m) ==
    IF variant = "discovery"
    THEN openModalDiscovery(title, type, url, m)
    ELSE openModalManifest(title, type, url, m)

\* the click listener of the document, for a click inside the .item button
\* btn, given by its data-title, data-type and data-img / data-full ("" for
\* an attribute that is absent or empty)
ClickItem(btn) ==
    /\ escaped < MaxEscaped
    /\ IF btn.url # "" /\ decodeURIThrows(btn.url)
       THEN /\ escaped' = escaped + 1
            /\ event' = "click"
            /\ UNCHANGED <<modal, opened>>
       ELSE LET title == OrElse(btn.title, "Artwork")
                type == OrElse(btn.type, "")
                url == IF btn.url # "" THEN decodeURI(btn.url) ELSE ""
                r == openModal(title, type, url, modal) IN
            /\ modal' = r.modal
            /\ escaped' = IF r.threw THEN escaped + 1 ELSE escaped
            /\ opened' = [called |-> TRUE, title |-> title, type |-> type, url |-> url]
            /\ event' = "open"
    /\ closedBy' = ""
    /\ UNCHANGED <<variant, files, dom, imgs, html, scanVars, logVars, response,
                   logged, timers>>

\* (mutant: the image is cleared at once)
closeModalClearsNow(m) ==
    [m EXCEPT !.isOpen = FALSE, !.ariaHidden = "true", !.overflow = "",
              !.src = "", !.alt = ""]

\* closeModal() on the modal m, before its setTimeout
closeModal(m) ==
    [m EXCEPT !.isOpen = FALSE, !.ariaHidden = "true", !.overflow = ""]

\* closeModal(), called by the click listener of the backdrop or of the
\* close button (installed when the element is there) or by the keydown
\* listener on Escape
CloseModal(trigger) ==
    /\ timers < MaxTimers
    /\ trigger = "backdrop" => "modalBackdrop" \in dom
    /\ trigger = "button" => "modalClose" \in dom
    /\ IF "modal" \notin dom
       THEN UNCHANGED <<modal, timers>>
       ELSE /\ modal' = closeModal(modal)
            /\ timers' = timers + 1
    /\ event' = "close"
    /\ closedBy' = trigger
    /\ UNCHANGED <<variant, files, dom, imgs, html, scanVars, logVars, manifestVars,
                   opened>>

\* a timeout of closeModal fires, 120 ms after the close
ResetTimerFires ==
    /\ timers > 0
    /\ timers' = timers - 1
    /\ IF "modalImg" \notin dom
       THEN /\ escaped' = IF escaped < MaxEscaped THEN escaped + 1 ELSE escaped
            /\ UNCHANGED modal
       ELSE /\ modal' = [modal EXCEPT !.src = "", !.alt = "", !.loading = TRUE]
            /\ UNCHANGED escaped
    /\ event' = "timer"
    /\ closedBy' = ""
    /\ UNCHANGED <<variant, files, dom, imgs, html, scanVars, logVars, response,
                   logged, opened>>

\* An element of the page a load can fail on: whether it is an
\* HTMLImageElement, whether its class list has item__img, its data-fallback
\* attribute ("" when absent), its src, its onerror property, whether a load
\* of its src is under way, and (log) how often the listener below has
\* assigned its src and whether a load of it has failed.
ElementOfTile(tile) ==
    [isImg |-> TRUE, itemImg |-> TRUE, fallback |-> tile.fallback,
     src |-> tile.src, onerror |-> NoHandler, loading |-> TRUE, swaps |-> 0,
     failed |-> FALSE]

\* the image of the modal as such an element: #modalImg is not a tile image
\* and the scripts give it no data-fallback
ModalImgElement(m) ==
    [isImg |-> TRUE, itemImg |-> FALSE, fallback |-> "",
     src |-> m.src, onerror |-> m.onerror, loading |-> m.loading, swaps |-> 0,
     failed |-> FALSE]

\* (mutant: the listener does not look at the class)
errorListenerAnyImage(el) ==
    IF ~el.isImg THEN el
    ELSE IF el.fallback = "" THEN el
    ELSE [el EXCEPT !.onerror = NoHandler, !.src = el.fallback, !.swaps = @ + 1]

\* the capturing error listener of the document, on the target el
errorListener(el) ==
    IF ~el.isImg THEN el
    ELSE IF ~el.itemImg THEN el
    ELSE IF el.fallback = "" THEN el
    ELSE [el EXCEPT !.onerror = NoHandler, !.src = el.fallback, !.swaps = @ + 1]

\* the load of the element id fails: an error event, which the listener of
\* the document sees.  A src it assigns starts a new load, of the same data
\* URI when the element had it already.
ElementError(id) ==
    /\ imgs[id].loading
    /\ LET el == errorListener(imgs[id]) IN
       /\ el.swaps <= MaxSwaps
       /\ imgs' = [imgs EXCEPT ![id] = [el EXCEPT !.loading = el.swaps > imgs[id].swaps,
                                                  !.failed = TRUE]]
    /\ event' = "element"
    /\ closedBy' = ""
    /\ UNCHANGED <<variant, files, dom, html, scanVars, logVars, manifestVars,
                   modal, timers, opened>>

\* the load of the element id succeeds
ElementLoad(id) ==
    /\ imgs[id].loading
    /\ imgs[id].src # ""
    /\ imgs' = [imgs EXCEPT ![id].loading = FALSE]
    /\ event' = "element"
    /\ closedBy' = ""
    /\ UNCHANGED <<variant, files, dom, html, scanVars, logVars, manifestVars,
                   modal, timers, opened>>

\* (mutant: the handler stays armed)
onerrorHandlerStaysArmed(m) ==
    [m EXCEPT !.src = makePlaceholderSvg(OrElse(m.onerror.title, "Artwork")),
              !.loading = TRUE]

\* the onerror handler openModal gives the image, on the modal m
onerrorHandler(m) ==
    [m EXCEPT !.onerror = NoHandler,
              !.src = makePlaceholderSvg(OrElse(m.onerror.title, "Artwork")),
              !.loading = TRUE]

\* the image of the modal fails to load: the listener of the document sees
\* the error event first (capture), then the onerror handler of the image,
\* when there is one, disarms itself and puts the placeholder of its title in
ModalImgError ==
    /\ "modalImg" \in dom
    /\ modal.loading
    /\ LET el == errorListener(ModalImgElement(modal))
           m == [modal EXCEPT !.src = el.src, !.onerror = el.onerror] IN
       modal' = IF m.onerror.armed
                THEN onerrorHandler(m)
                ELSE [m EXCEPT !.loading = FALSE]
    /\ event' = "error"
    /\ closedBy' = ""
    /\ UNCHANGED <<variant, files, dom, imgs, html, scanVars, logVars, manifestVars,
                   timers, opened>>

\* the image of the modal loads
ModalImgLoad ==
    /\ "modalImg" \in dom
    /\ modal.loading
    /\ modal.src # ""
    /\ modal' = [modal EXCEPT !.loading = FALSE]
    /\ event' = "load"
    /\ closedBy' = ""
    /\ UNCHANGED <<variant, files, dom, imgs, html, scanVars, logVars, manifestVars,
                   timers, opened>>

----------------------------------------------------------------------------
(* Bounds of the model: which answers the fetch of gallery.json may get *)

\* a list under a category key has up to MaxFiles well-formed filenames
MaxFiles == 7

FileName(k, n) == SectionKeys[k] \o "-" \o ToString(n) \o ".webp"

ListsOf(k, max) ==
    {[n \in 1..len |-> FileName(k, n)] : len \in 0..max}
        \cup {<<SpaceName>>, <<FileName(k, 1), LoneSurrogateName>>}

Responses ==
    {[status |-> st, body |-> b, data |-> <<Undefined, Undefined, Undefined>>] :
        st \in {200, 404, 500}, b \in {"invalid", "null", "number"}}
    \cup
    {[status |-> st, body |-> "object", data |-> <<v1, v2, v3>>] :
        st \in {200, 404},
        v1 \in JsonValues(ListsOf(1, MaxFiles)),
        v2 \in JsonValues(ListsOf(2, 1)),
        v3 \in JsonValues(ListsOf(3, 1))}

----------------------------------------------------------------------------

FilesOf(H, E) ==
    {ASSETS_DIR \o BaseName(SECTIONS[s], i) \o "." \o e :
        s \in DOMAIN SECTIONS, i \in H, e \in E}

InitScan ==
    /\ variant = "discovery"
    /\ \E H \in HitSets, E \in ExtSets : files = FilesOf(H, E)
    /\ dom \in {RootIds, {"gridPersonal"}}
    /\ html = [r \in RootIds |-> Static]
    /\ pc = "start"
    /\ secI = 1
    /\ idx = 1
    /\ extI = 1
    /\ missesInRow = 0
    /\ found = <<>>
    /\ probe = NoUrl
    /\ inflight = {}
    /\ scanned = [r \in RootIds |-> <<>>]
    /\ attempts = [r \in RootIds |-> 0]
    /\ tried = <<>>
    /\ lastCall = NoCall
    /\ response = NoResponse
    /\ logged = 0
    /\ escaped = 0
    /\ modal = ModalInitial
    /\ timers = 0
    /\ opened = NotOpened
    /\ event = "none"
    /\ closedBy = ""
    /\ imgs = << >>

NextScan == StartDiscovery \/ ProbeSettles

SpecScan == InitScan /\ [][NextScan]_vars

\* the same, given that the script runs once loaded and that the Image of a
\* tryLoad does fire onload or onerror
SpecScanFair ==
    /\ InitScan
    /\ [][NextScan]_vars
    /\ WF_vars(StartDiscovery)
    /\ WF_vars(ProbeSettles)

InitManifestPage ==
    /\ variant = "manifest"
    /\ files = {}
    /\ dom \in SUBSET RootIds
    /\ html = [r \in RootIds |-> Static]
    /\ pc = "start"
    /\ secI = 1
    /\ idx = 1
    /\ extI = 1
    /\ missesInRow = 0
    /\ found = <<>>
    /\ probe = NoUrl
    /\ inflight = {}
    /\ scanned = [r \in RootIds |-> <<>>]
    /\ attempts = [r \in RootIds |-> 0]
    /\ tried = <<>>
    /\ lastCall = NoCall
    /\ response = NoResponse
    /\ logged = 0
    /\ escaped = 0
    /\ modal = ModalInitial
    /\ timers = 0
    /\ opened = NotOpened
    /\ event = "none"
    /\ closedBy = ""
    /\ imgs = << >>

\* the .item buttons of the page a click may land in
Buttons ==
    {[title |-> t, type |-> ty, url |-> u] :
        t \in {"", "NFT #3", AmpTitle},
        ty \in {"", "Artwork"},
        u \in {"", "assets/full/nft-3.webp", "./assets/full/my%20art.webp", BadEncoding}}

InitModal ==
    /\ variant \in {"discovery", "manifest"}
    /\ files = {}
    /\ dom \in {RootIds \cup ModalIds} \cup {RootIds \cup (ModalIds \ {e}) : e \in ModalIds}
    /\ html = [r \in RootIds |-> Static]
    /\ pc = "done"
    /\ secI = 1
    /\ idx = 1
    /\ extI = 1
    /\ missesInRow = 0
    /\ found = <<>>
    /\ probe = NoUrl
    /\ inflight = {}
    /\ scanned = [r \in RootIds |-> <<>>]
    /\ attempts = [r \in RootIds |-> 0]
    /\ tried = <<>>
    /\ lastCall = NoCall
    /\ response = NoResponse
    /\ logged = 0
    /\ escaped = 0
    /\ modal = ModalInitial
    /\ timers = 0
    /\ opened = NotOpened
    /\ event = "none"
    /\ closedBy = ""
    /\ imgs = << >>

NextModal ==
    \/ \E btn \in Buttons : ClickItem(btn)
    \/ \E trigger \in {"backdrop", "button", "Escape"} : CloseModal(trigger)
    \/ ResetTimerFires
    \/ ModalImgError
    \/ ModalImgLoad

SpecModal == InitModal /\ [][NextModal]_vars

\* the page after init(), with one tile in the first container, and beside
\* the tile image: a tile image the markup gave no data-fallback, an image
\* that is no tile image but has a data-fallback and a handler of its own,
\* and an element that is no image
FirstTile ==
    IF variant = "discovery"
    THEN itemHtmlDiscovery(FoundItem(SECTIONS[1], 1,
                                     CandidateUrl(BaseName(SECTIONS[1], 1), 1), <<>>))
    ELSE itemHtmlManifest(ListItem(SECTIONS[1], FileName(1, 1), 1, TRUE))

InitTiles ==
    /\ variant \in {"discovery", "manifest"}
    /\ files = {}
    /\ dom = RootIds \cup ModalIds
    /\ html = [r \in RootIds |-> IF r = SECTIONS[1].rootId
                                  THEN Tiles(<<FirstTile>>) ELSE Tiles(<<>>)]
    /\ pc = "done"
    /\ secI = 1
    /\ idx = 1
    /\ extI = 1
    /\ missesInRow = 0
    /\ found = <<>>
    /\ probe = NoUrl
    /\ inflight = {}
    /\ scanned = [r \in RootIds |-> <<>>]
    /\ attempts = [r \in RootIds |-> 0]
    /\ tried = <<>>
    /\ lastCall = NoCall
    /\ response = NoResponse
    /\ logged = 0
    /\ escaped = 0
    /\ modal = ModalInitial
    /\ timers = 0
    /\ opened = NotOpened
    /\ event = "none"
    /\ closedBy = ""
    /\ imgs = [id \in {"tile", "bare", "logo", "script"} |->
                 IF id = "tile" THEN ElementOfTile(FirstTile)
                 ELSE IF id = "bare"
                 THEN [ElementOfTile(FirstTile) EXCEPT !.fallback = ""]
                 ELSE IF id = "logo"
                 THEN [ElementOfTile(FirstTile) EXCEPT !.itemImg = FALSE,
                                                       !.src = "logo.png",
                                                       !.onerror = Handler("")]
                 ELSE [ElementOfTile(FirstTile) EXCEPT !.isImg = FALSE,
                                                       !.src = "lib.js"]]

\* the .item buttons of the rendered tiles
TileButtons ==
    {[title |-> html[r].tiles[k].dataTitle, type |-> html[r].tiles[k].dataType,
      url |-> html[r].tiles[k].dataUrl] :
        r \in {SECTIONS[1].rootId}, k \in DOMAIN html[SECTIONS[1].rootId].tiles}

NextTiles ==
    \/ \E id \in DOMAIN imgs : ElementError(id)
    \/ \E id \in DOMAIN imgs : ElementLoad(id)
    \/ \E btn \in TileButtons : ClickItem(btn)
    \/ ModalImgError
    \/ ModalImgLoad

SpecTiles == InitTiles /\ [][NextTiles]_vars

NextManifest == StartManifest \/ \E res \in Responses : FetchSettles(res)

SpecManifest == InitManifestPage /\ [][NextManifest]_vars

\* the page with either script
InitGallery == InitScan \/ InitManifestPage

NextGallery == NextScan \/ NextManifest

SpecGallery == InitGallery /\ [][NextGallery]_vars

----------------------------------------------------------------------------
(* What the claims are stated with.  These are written from the claims'     *)
(* words, not with the operators of the scripts above.                      *)

ClaimExtensions == <<"webp", "jpg", "jpeg", "png">>

ClaimUrl(baseName, e) == "assets/" \o baseName \o "." \o ClaimExtensions[e]

\* the candidate URLs and the titles of every category and source index,
\* tabulated once: ClaimUrls[j][i][e], ClaimTitles[j][n]
ClaimUrls ==
    [j \in DOMAIN SECTIONS |->
        [i \in 1..(MAX_ITEMS + 1) |->
            [e \in 1..4 |-> ClaimUrl(SECTIONS[j].prefix \o ToString(i), e)]]]

ClaimTitles ==
    [j \in DOMAIN SECTIONS |->
        [n \in 0..(MAX_ITEMS + 1) |-> SECTIONS[j].titlePrefix \o " #" \o ToString(n)]]

\* a file of the category at position j exists at source index i
Hit(j, i) == \E e \in 1..4 : ClaimUrls[j][i][e] \in files

\* the scan of the section at position j has ended and its container is set
Finished(j) ==
    /\ variant = "discovery"
    /\ SECTIONS[j].rootId \in dom
    /\ pc = "done" \/ (pc = "probing" /\ secI > j)

----------------------------------------------------------------------------
(* C1: the scan of a category probes the source indices 1, 2, ... in order; *)
(* the streak counts the misses since the last hit; no index is probed      *)
(* after one that completes a run of STOP_AFTER_MISSES misses, and the scan *)
(* ends only there or at MAX_ITEMS.  With hits at 1-4 and misses at 5-16    *)
(* the last index probed is 16 and 4 items are rendered.                    *)
C1_EarlyStop ==
    \A j \in DOMAIN SECTIONS :
        LET section == SECTIONS[j]
            probed == scanned[section.rootId]
            n == Len(probed) IN
        /\ n > 0 => probed[n] = n
        /\ n <= MAX_ITEMS
        /\ n > STOP_AFTER_MISSES =>
              \E i \in (n - STOP_AFTER_MISSES)..(n - 1) : Hit(j, i)
        /\ (variant = "discovery" /\ pc = "probing" /\ secI = j) =>
              /\ idx = n
              /\ missesInRow < STOP_AFTER_MISSES
              /\ \A i \in (idx - missesInRow)..(idx - 1) : ~Hit(j, i)
              /\ idx - missesInRow > 1 => Hit(j, idx - missesInRow - 1)
        /\ Finished(j) =>
              \/ n = MAX_ITEMS
              \/ /\ n >= STOP_AFTER_MISSES
                 /\ \A i \in (n - STOP_AFTER_MISSES + 1)..n : ~Hit(j, i)
        /\ (Finished(j) /\ (\A i \in 1..4 : Hit(j, i))
                        /\ (\A i \in 5..16 : ~Hit(j, i))) =>
              /\ n = 16
              /\ Len(html[section.rootId].tiles) = 4

C1_Witness ==
    /\ pc = "done"
    /\ variant = "discovery"
    /\ \A i \in 1..4 : Hit(1, i)
    /\ \A i \in 5..16 : ~Hit(1, i)
    /\ scanned["gridNft"] = [i \in 1..16 |-> i]
    /\ Len(html["gridNft"].tiles) = 4

----------------------------------------------------------------------------
(* C2: a finished findExistingImageUrl call has tried the candidates        *)
(* assets/<baseName>.<ext> in the order webp, jpg, jpeg, png up to the      *)
(* first that loads and returns that one; it returns null exactly when all  *)
(* four fail.                                                               *)
C2_FirstExisting ==
    lastCall # NoCall =>
        LET b == lastCall.baseName
            n == Len(lastCall.tried) IN
        /\ n \in 1..4
        /\ \A e \in 1..n : lastCall.tried[e] = ClaimUrl(b, e)
        /\ \A e \in 1..(n - 1) : ClaimUrl(b, e) \notin files
        /\ lastCall.result # NoUrl =>
              /\ lastCall.result = ClaimUrl(b, n)
              /\ lastCall.result \in files
        /\ lastCall.result = NoUrl <=> (\A e \in 1..4 : ClaimUrl(b, e) \notin files)
        /\ lastCall.result = NoUrl => n = 4

C2_Witness ==
    /\ lastCall.baseName = "nft-1"
    /\ lastCall.result = "assets/nft-1.png"
    /\ lastCall.tried = <<"assets/nft-1.webp", "assets/nft-1.jpg",
                          "assets/nft-1.jpeg", "assets/nft-1.png">>
    /\ \A e \in 1..3 : ClaimUrl("nft-1", e) \notin files

----------------------------------------------------------------------------
(* C3: the scan of a category issues at most 50 x 4 = 200 image loads, and  *)
(* exactly 12 x 4 = 48 when no file of the category exists.                 *)
C3_AttemptBound ==
    \A j \in DOMAIN SECTIONS :
        LET section == SECTIONS[j]
            a == attempts[section.rootId] IN
        /\ a <= 200
        /\ (Finished(j) /\ a # 48) => \E i \in 1..50 : Hit(j, i)
        /\ (pc = "done" /\ variant = "discovery" /\ section.rootId \notin dom) => a = 0

C3_Witness ==
    /\ pc = "done"
    /\ variant = "discovery"
    /\ "gridMobile" \in dom
    /\ \A i \in 1..50 : ~Hit(2, i)
    /\ attempts["gridMobile"] = 48

----------------------------------------------------------------------------
(* C9: in the discovery script the tiles of a category carry the source     *)
(* index at which each was found as their ordinal: the k-th tile's title is *)
(* "<titlePrefix> #<i>" for the index i of the file it shows, and these     *)
(* indices increase strictly along the list.                                *)
SourceIndexOf(j, tile) ==
    {i \in 1..MAX_ITEMS :
        /\ tile.dataTitle = ClaimTitles[j][i]
        /\ \E e \in 1..4 : tile.src = ClaimUrls[j][i][e]}

C9_OrdinalIsSourceIndex ==
    \A j \in DOMAIN SECTIONS :
        Finished(j) =>
            LET tiles == html[SECTIONS[j].rootId].tiles
                at == [k \in DOMAIN tiles |-> SourceIndexOf(j, tiles[k])] IN
            /\ \A k \in DOMAIN tiles : at[k] # {} /\ \A i \in at[k] : Hit(j, i)
            /\ \A k \in 1..(Len(tiles) - 1) :
                  \A a \in at[k] : \A b \in at[k + 1] : a < b

C9_Witness ==
    /\ pc = "done"
    /\ variant = "discovery"
    /\ Len(html["gridNft"].tiles) >= 2
    /\ html["gridNft"].tiles[1].dataTitle = "NFT #1"
    /\ html["gridNft"].tiles[2].dataTitle = "NFT #4"
    /\ ~Hit(1, 2)

----------------------------------------------------------------------------
(* C4: in the manifest script a rendered tile is eager / high exactly when  *)
(* it is one of the first 6 tiles of the first category (nft); every other  *)
(* tile is lazy / auto.                                                     *)
C4_PriorityHints ==
    (variant = "manifest" /\ pc = "done") =>
        \A j \in DOMAIN SECTIONS :
            LET tiles == html[SECTIONS[j].rootId].tiles IN
            \A k \in DOMAIN tiles :
                IF SectionKeys[j] = "nft" /\ k <= 6
                THEN tiles[k].loading = "eager" /\ tiles[k].fetchpriority = "high"
                ELSE tiles[k].loading = "lazy" /\ tiles[k].fetchpriority = "auto"

C4_Witness ==
    /\ variant = "manifest"
    /\ pc = "done"
    /\ Len(html["gridNft"].tiles) = 7
    /\ html["gridNft"].tiles[6].loading = "eager"
    /\ html["gridNft"].tiles[7].loading = "lazy"
    /\ Len(html["gridMobile"].tiles) = 1
    /\ html["gridMobile"].tiles[1].fetchpriority = "auto"

----------------------------------------------------------------------------
(* C5: a call of openModal with all its elements in the page leaves the     *)
(* modal open with the title, the classification and the image source it    *)
(* was given; an error of the image then puts the placeholder data URI of   *)
(* that title in, leaves the modal as open as it was and disarms the        *)
(* handler; an error with the handler disarmed changes nothing of the       *)
(* modal but the end of the load.                                           *)
OpenModalElements == {"modal", "modalTitle", "modalMeta", "modalImg"}

C5_OpenThenError ==
    [][ /\ (event' = "open" /\ OpenModalElements \subseteq dom) =>
              /\ modal'.isOpen
              /\ modal'.ariaHidden = "false"
              /\ modal'.titleText = opened'.title
              /\ modal'.metaText = opened'.type
              /\ modal'.src = opened'.url
              /\ modal'.onerror.armed
        /\ (event' = "error" /\ modal.onerror.armed) =>
              /\ IsSvgDataUri(modal'.src, {opened.title})
              /\ modal'.isOpen = modal.isOpen
              /\ modal'.titleText = modal.titleText
              /\ modal'.metaText = modal.metaText
              /\ ~modal'.onerror.armed
        /\ (event' = "error" /\ ~modal.onerror.armed) =>
              modal' = [modal EXCEPT !.loading = FALSE]
      ]_vars

\* the image failed twice after an open: the placeholder is in, the modal
\* is open
C5_Witness ==
    /\ event = "error"
    /\ modal.isOpen
    /\ opened.title = "NFT #3"
    /\ opened.url = "assets/full/nft-3.webp"
    /\ modal.titleText = "NFT #3"
    /\ modal.metaText = "Artwork"
    /\ IsSvgDataUri(modal.src, {"NFT #3"})
    /\ ~modal.onerror.armed
    /\ ~modal.loading

----------------------------------------------------------------------------
(* C6: the step of closeModal takes the open state away (class, aria-hidden *)
(* true, scroll restored) and leaves the image source and alt as they were; *)
(* they are cleared by the step of its timeout.                             *)
C6_CloseOrdering ==
    [][ /\ (event' = "close" /\ "modal" \in dom) =>
              /\ ~modal'.isOpen
              /\ modal'.ariaHidden = "true"
              /\ modal'.overflow = ""
              /\ modal'.src = modal.src
              /\ modal'.alt = modal.alt
              /\ timers' = timers + 1
        /\ (event' = "timer" /\ "modalImg" \in dom) =>
              /\ modal'.src = ""
              /\ modal'.alt = ""
              /\ modal'.isOpen = modal.isOpen
      ]_vars

\* closed, the timeout not yet fired: the image is still the one opened
C6_Witness ==
    /\ event = "close"
    /\ timers = 1
    /\ ~modal.isOpen
    /\ modal.ariaHidden = "true"
    /\ opened.url = "assets/full/nft-3.webp"
    /\ modal.src = opened.url
    /\ modal.alt = "NFT #3"

----------------------------------------------------------------------------
(* C7: when the fetch of the manifest answers with a status that is not a   *)
(* success, or with a body that is no JSON, every category container of the *)
(* page shows the fallback text, no container has a tile, and no exception  *)
(* has escaped init().                                                      *)
C7_ManifestFailure ==
    (variant = "manifest" /\ pc = "done"
        /\ (response.status \notin 200..299 \/ response.body = "invalid")) =>
        /\ \A r \in RootIds :
              /\ r \in dom => (html[r].kind = "notice" /\ html[r].text = FallbackNotice)
              /\ html[r].tiles = <<>>
        /\ escaped = 0

C7_Witness ==
    /\ variant = "manifest"
    /\ pc = "done"
    /\ response.status = 404
    /\ response.body = "object"
    /\ response.data[1].kind = "array"
    /\ Len(response.data[1].list) = 2
    /\ dom = RootIds
    /\ \A r \in RootIds : html[r].kind = "notice"

----------------------------------------------------------------------------
(* C8: for a manifest fetched with success whose body is a JSON object, a   *)
(* category key with no value or with a value that is no list gives an      *)
(* empty container (no tiles, no fallback text), and every other category   *)
(* is rendered from its own list, one tile per filename.                    *)
C8_ValueDegradation ==
    (variant = "manifest" /\ pc = "done"
        /\ response.status \in 200..299 /\ response.body = "object") =>
        \A k \in DOMAIN SECTIONS :
            response.data[k].kind # "array" =>
                /\ SECTIONS[k].rootId \in dom =>
                      (html[SECTIONS[k].rootId].kind = "tiles"
                          /\ html[SECTIONS[k].rootId].tiles = <<>>)
                /\ \A j \in DOMAIN SECTIONS :
                      (SECTIONS[j].rootId \in dom /\ response.data[j].kind = "array") =>
                          /\ html[SECTIONS[j].rootId].kind = "tiles"
                          /\ Len(html[SECTIONS[j].rootId].tiles) = Len(response.data[j].list)

----------------------------------------------------------------------------
(* C10, as claimed: the k-th tile of a category has ordinal k, its title is *)
(* "<titlePrefix> #k", in both scripts.                                     *)
Rendered(j) ==
    \/ Finished(j)
    \/ variant = "manifest" /\ pc = "done"

C10_DenseOrdinals ==
    \A j \in DOMAIN SECTIONS :
        Rendered(j) =>
            LET tiles == html[SECTIONS[j].rootId].tiles IN
            \A k \in DOMAIN tiles : tiles[k].dataTitle = ClaimTitles[j][k]

(* C10, amended: the ordinals are dense in the manifest script; in the      *)
(* discovery script the k-th tile has ordinal k exactly when it was found   *)
(* at index k, that is when all of the indices 1..k exist.                  *)
C10_DenseInManifestOnly ==
    \A j \in DOMAIN SECTIONS :
        Rendered(j) =>
            LET tiles == html[SECTIONS[j].rootId].tiles IN
            \A k \in DOMAIN tiles :
                IF variant = "manifest"
                THEN tiles[k].dataTitle = ClaimTitles[j][k]
                ELSE tiles[k].dataTitle = ClaimTitles[j][k]
                        <=> (\A i \in 1..k : Hit(j, i))

C10_Witness ==
    /\ variant = "manifest"
    /\ pc = "done"
    /\ Len(html["gridNft"].tiles) = 7
    /\ html["gridNft"].tiles[7].dataTitle = "NFT #7"
    /\ html["gridNft"].tiles[7].src = "./assets/thumb/nft-7.webp"

----------------------------------------------------------------------------
----------------------------------------------------------------------------
(* C12: the error listener of the document assigns the source of a tile     *)
(* image at most once: after the swap to the fallback a further error of    *)
(* the same image assigns nothing.                                          *)
C12_SwapOnce ==
    \A id \in DOMAIN imgs : imgs[id].swaps <= 1

----------------------------------------------------------------------------
(* C13: a press of Escape while the modal is closed changes nothing of the  *)
(* modal (open flag, attributes, image source and alt) and schedules no     *)
(* timeout.                                                                 *)
C13_EscapeClosedNoOp ==
    [][ (closedBy' = "Escape" /\ ~modal.isOpen) =>
            (modal' = modal /\ timers' = timers)
      ]_vars

----------------------------------------------------------------------------
(* C14: when one of the six elements of the modal is absent from the page,  *)
(* a call of openModal by a click on a tile, a call of closeModal and a     *)
(* timeout of closeModal each change nothing of the modal, schedule         *)
(* nothing, and throw nothing.                                              *)
C14_AbsentElementsNoOp ==
    [][ (~(ModalIds \subseteq dom) /\ event' \in {"open", "close", "timer"}) =>
            (modal' = modal /\ timers' = timers /\ escaped' = escaped)
      ]_vars

----------------------------------------------------------------------------
(* C15: an error event changes the source of its target only when the       *)
(* target is an image with the class item__img and a data-fallback that is  *)
(* not empty, and then to that data-fallback; any other target keeps its    *)
(* source and its onerror handler.  The image of the modal is such another  *)
(* target: on its error it is changed by its own handler alone, and not at  *)
(* all when that handler is disarmed.                                       *)
C15_ListenerScope ==
    [][ /\ \A id \in DOMAIN imgs :
              LET before == imgs[id]
                  after == imgs'[id]
                  inScope == before.isImg /\ before.itemImg /\ before.fallback # "" IN
              /\ after.src # before.src => (inScope /\ after.src = before.fallback)
              /\ ~inScope => /\ after.src = before.src
                             /\ after.onerror = before.onerror
                             /\ after.swaps = 0
        /\ (event' = "error" /\ ~modal.onerror.armed) =>
              (modal'.src = modal.src /\ modal'.onerror = modal.onerror)
        /\ (event' = "error" /\ modal.onerror.armed) =>
              /\ IsSvgDataUri(modal'.src, {opened.title})
              /\ ~modal'.onerror.armed
      ]_vars

\* every element has had an error: the tile image shows its fallback, the
\* others are as they were, and the image of the modal has the placeholder
\* of its own handler
C15_Witness ==
    /\ \A id \in DOMAIN imgs : imgs[id].failed
    /\ imgs["tile"].swaps = 1
    /\ imgs["tile"].src = imgs["tile"].fallback
    /\ imgs["logo"].src = "logo.png"
    /\ imgs["logo"].onerror.armed
    /\ imgs["logo"].fallback # ""
    /\ imgs["bare"].src # ""
    /\ imgs["bare"].fallback = ""
    /\ imgs["script"].src = "lib.js"
    /\ event = "error"
    /\ modal.isOpen
    /\ IsSvgDataUri(modal.src, {opened.title})

----------------------------------------------------------------------------
(* C16: a category whose container is absent from the page is skipped: no   *)
(* load is tried for it, its container is given nothing, and nothing is     *)
(* thrown; when init() is done every container that is in the page has its  *)
(* content all the same: in the discovery script the tiles of the files     *)
(* found for it, in the manifest script the tiles of its list (or, when the *)
(* manifest could not be loaded or rendered, the fallback text).            *)
ListOfKey(k) ==
    IF response.body = "object" /\ response.data[k].kind = "array"
    THEN response.data[k].list
    ELSE <<>>

\* the manifest was fetched and parsed, and the filenames listed for the
\* containers of the page can all be encoded
ManifestRenders ==
    /\ response.status \in 200..299
    /\ response.body \in {"object", "number"}
    /\ \A k \in DOMAIN SECTIONS :
          SECTIONS[k].rootId \in dom =>
              \A n \in DOMAIN ListOfKey(k) : ListOfKey(k)[n] # LoneSurrogateName

C16_MissingContainer ==
    /\ escaped = 0
    /\ \A j \in DOMAIN SECTIONS :
          LET r == SECTIONS[j].rootId IN
          /\ r \notin dom =>
                /\ html[r] = Static
                /\ attempts[r] = 0
                /\ scanned[r] = <<>>
                /\ \A e \in 1..4 : ClaimUrls[j][1][e] \notin inflight
          /\ (r \in dom /\ pc = "done") =>
                IF variant = "discovery"
                THEN /\ html[r].kind = "tiles"
                     /\ Len(scanned[r]) >= STOP_AFTER_MISSES
                     /\ Len(html[r].tiles) =
                           Cardinality({i \in 1..Len(scanned[r]) : Hit(j, i)})
                ELSE IF ManifestRenders
                THEN /\ html[r].kind = "tiles"
                     /\ Len(html[r].tiles) = Len(ListOfKey(j))
                ELSE html[r].kind = "notice"

\* the discovery script on a page that has the third container only
C16_Witness ==
    /\ variant = "discovery"
    /\ pc = "done"
    /\ dom = {"gridPersonal"}
    /\ html["gridNft"] = Static
    /\ html["gridMobile"] = Static
    /\ attempts["gridNft"] = 0
    /\ Len(html["gridPersonal"].tiles) = 8
    /\ html["gridPersonal"].tiles[1].dataTitle = "Personal #1"

----------------------------------------------------------------------------
(* C17: in the discovery script at most one image load is unsettled at any  *)
(* time, and it is the one init() waits for; a step that requests a         *)
(* candidate URL requests one, and the load requested before it is settled  *)
(* by then.                                                                 *)
C17_OneProbeInFlight ==
    /\ [](variant = "discovery" =>
             /\ Cardinality(inflight) <= 1
             /\ pc = "probing" => inflight = {probe}
             /\ pc # "probing" => inflight = {})
    /\ [][ (inflight' \ inflight # {}) =>
               /\ Cardinality(inflight' \ inflight) = 1
               /\ inflight \cap inflight' = {}
         ]_vars

\* the second candidate of the second index of the second category is
\* under way, alone
C17_Witness ==
    /\ variant = "discovery"
    /\ pc = "probing"
    /\ inflight = {"assets/mob-2.jpg"}
    /\ attempts["gridNft"] >= 48
    /\ attempts["gridMobile"] >= 3

----------------------------------------------------------------------------
(* C18: the discovery script populates the categories in the order NFT,     *)
(* Mobile, Personal: when a load has been tried for a category or its       *)
(* container has been touched, the scan of every category before it whose   *)
(* container is in the page has ended and that container holds the tiles of *)
(* the files found; and a container is not changed after its scan has       *)
(* ended.                                                                   *)
ClaimOrder == <<"gridNft", "gridMobile", "gridPersonal">>

\* the scan of the category at position i has ended: by the bound or by a
\* streak of misses, and init() has gone past it
ScanEnded(i) ==
    LET n == Len(scanned[ClaimOrder[i]]) IN
    /\ pc = "done" \/ SECTIONS[secI].rootId # ClaimOrder[i]
    /\ \/ n = MAX_ITEMS
       \/ /\ n >= STOP_AFTER_MISSES
          /\ \A k \in (n - STOP_AFTER_MISSES + 1)..n : ~Hit(i, k)

C18_CategoryOrder ==
    /\ [](variant = "discovery" =>
            \A j \in 1..3 :
                (attempts[ClaimOrder[j]] > 0 \/ html[ClaimOrder[j]] # Static) =>
                    \A i \in 1..(j - 1) :
                        ClaimOrder[i] \in dom =>
                            /\ ScanEnded(i)
                            /\ html[ClaimOrder[i]].kind = "tiles"
                            /\ Len(html[ClaimOrder[i]].tiles) =
                                  Cardinality({k \in 1..Len(scanned[ClaimOrder[i]]) :
                                                  Hit(i, k)}))
    /\ [][ \A i \in 1..3 :
              (variant = "discovery" /\ ClaimOrder[i] \in dom /\ ScanEnded(i)) =>
                  /\ html'[ClaimOrder[i]] = html[ClaimOrder[i]]
                  /\ attempts'[ClaimOrder[i]] = attempts[ClaimOrder[i]]
         ]_vars

\* the third category is being scanned, the first two are rendered
C18_Witness ==
    /\ variant = "discovery"
    /\ pc = "probing"
    /\ dom = RootIds
    /\ secI = 3
    /\ attempts["gridPersonal"] > 4
    /\ html["gridPersonal"] = Tiles(<<>>)
    /\ Len(html["gridNft"].tiles) = 8
    /\ Len(html["gridMobile"].tiles) = 8
    /\ html["gridNft"].tiles[1].dataTitle = "NFT #1"
    /\ html["gridMobile"].tiles[1].dataTitle = "Mobile #1"

----------------------------------------------------------------------------
(* C19: whenever the modal is open (its elements all in the page) the       *)
(* source of its image is the URL of the latest openModal call or the       *)
(* placeholder of that call's title, and its alt is that title: a timeout   *)
(* of an earlier closeModal does not clear the image of a modal opened      *)
(* again since.                                                             *)
C19_NoStaleReset ==
    (modal.isOpen /\ OpenModalElements \subseteq dom) =>
        /\ \/ modal.src = opened.url
           \/ IsSvgDataUri(modal.src, {opened.title})
        /\ modal.alt = opened.title

----------------------------------------------------------------------------
(* C20: in the discovery script, if every load settles, init() comes to its *)
(* end with all categories scanned; a container of the page is emptied when *)
(* its scan starts and is given its tiles once, in the step that ends its   *)
(* scan; and a step that leaves the load under way unsettled requests no    *)
(* load and changes no container.                                           *)
C20_ScanTerminates ==
    /\ <>[](pc = "done" /\ inflight = {}
              /\ \A j \in DOMAIN SECTIONS :
                    ClaimOrder[j] \in dom =>
                        /\ html[ClaimOrder[j]].kind = "tiles"
                        /\ Len(scanned[ClaimOrder[j]]) >= STOP_AFTER_MISSES)
    /\ [][ \A j \in DOMAIN SECTIONS :
              LET r == ClaimOrder[j] IN
              html'[r] # html[r] =>
                  \/ html[r] = Static /\ html'[r] = Tiles(<<>>)
                  \/ /\ html[r] = Tiles(<<>>)
                     /\ pc = "probing" /\ SECTIONS[secI].rootId = r
                     /\ pc' = "done" \/ SECTIONS[secI'].rootId # r
                     /\ Len(html'[r].tiles) =
                           Cardinality({k \in 1..Len(scanned[r]) : Hit(j, k)})
         ]_vars
    /\ [][ (inflight # {} /\ inflight \subseteq inflight') =>
               (inflight' = inflight /\ html' = html /\ attempts' = attempts)
         ]_vars

\* init() is done with hits in all three categories
C20_Witness ==
    /\ variant = "discovery"
    /\ pc = "done"
    /\ inflight = {}
    /\ dom = RootIds
    /\ \A r \in RootIds : Len(html[r].tiles) = 8 /\ Len(scanned[r]) = MAX_ITEMS
    /\ attempts["gridPersonal"] = 4 * MAX_ITEMS

====
